---- MODULE Spec2Model ----
(***************************************************************************)
(* kysely-pg-observables: the reactive query runner (observeQuery) and the  *)
(* change tailer (getKyselyChanges: slot, poller, decoder loop, teardown).  *)
(*                                                                         *)
(* One subscription to the observable returned by observeQuery is modelled *)
(* as a state machine over the closure variables runningQuery,             *)
(* queueNextQuery and lastResult, the rxjs subscriber it feeds, the        *)
(* upstream change subject, and the promises in flight (query() runs and   *)
(* user handlers).  Every action is one JavaScript job: the code between   *)
(* two suspension points.                                                  *)
(*                                                                         *)
(* A change stream returned by getKyselyChanges is modelled over its held  *)
(* pg client (the queries queued on it), its replication slot, its poll    *)
(* timer, its subject and the module-level flag currentlyGettingChanges.   *)
(* Spec and LiveSpec move the runner, TailerSpec one stream, PairSpec two  *)
(* streams of one process, StartSpec one stream from the call of           *)
(* getKyselyChanges on, DecoderSpec the change handler on raw records.     *)
(***************************************************************************)
EXTENDS Integers, Sequences, FiniteSets, TLC

\* Number of changes the upstream subject delivers in one behaviour.
MaxChanges == 3

\* Records written to the tables of a stream, teardown() calls on a stream,
\* and times a slot is dropped behind the stream's back, in one behaviour.
MaxRecords == 3
MaxTeardowns == 2
MaxOperatorDrops == 1

\* Records of one row of a get-changes batch (one transaction) at most.
MaxRowLen == 2

\* The same, in the behaviours checked for liveness.
MaxLiveChanges == 2

\* Values a query() run can resolve to.
Results == {"r1", "r2"}

\* Tables and event kinds of the changes the subject delivers.
Tables == {"cards", "decks", "ignore_this_table"}
Events == {"insert", "update", "delete"}

\* The handlerMap argument: "cards" has insert and update handlers, "decks"
\* has an entry without handlers, "ignore_this_table" has no entry.
handlerMap == [t \in {"cards", "decks"} |->
                 IF t = "cards" THEN {"insert", "update"} ELSE {}]

VARIABLES
  sub,             \* the rxjs subscriber: none / active / unsubscribed / errored / completed
  upstream,        \* kyselyChanges.subject: open / completed / errored
  runningQuery,    \* "undefined" or "promise"
  queueNextQuery,  \* TRUE when it holds runQueryAndCallNextIfExists
  lastResult,      \* "undefined" or a value of Results
  inFlight,        \* query() promises started and not yet settled
  started,         \* number of query() invocations
  nexts,           \* values the subscriber received through next
  changes,         \* one record per change delivered to the next handler
  rejected,        \* a query() run has rejected
  rejectedActive,  \* ... while the subscriber was active
  nResolved,       \* number of query() runs that resolved
  firstResolved,   \* value of the first run that resolved
  invalDuringRun,  \* invalidations applied since the run in flight started
  lastN,           \* invalDuringRun at the last resolution
  inval,           \* none / owed / covered: the accepted invalidations
  currentlyGettingChanges,  \* the module-level flag of getChanges
  session,         \* per stream, the pg client: none / held / released
  slot,            \* per stream: its replication slot exists in the database
  interval,        \* per stream: the poll timer is set
  clientQueue,     \* per stream: the queries queued on the client, oldest first
  pollpc,          \* per stream, getChanges: idle / getting / creating / retrying
  tdpc,            \* per stream, teardown: none / dropping / releasing / done / failed
  subject,         \* per stream, the subject: open / completed / errored
  wal,             \* per stream: the rows the slot holds, each a list of records
  committed,       \* per stream: number of records written so far
  observers,       \* per stream: the observers subscribed to the subject
  received,        \* per stream and observer: the records received through next
  getsInPoll,      \* per stream: get-changes requests of the poll invocation
  lastPoll,        \* per stream: how the last poll invocation ended
  skippedByOther,  \* per stream: a tick was skipped while its own poll was idle
  skippedOwn,      \* per stream: a tick was skipped while its own poll was in progress
  tdCalls,         \* per stream: number of teardown() calls
  releaseCalls,    \* per stream: number of client.release() calls
  lastDrop,        \* per stream: how the last drop request ended: none / ok / error
  operatorDrops,   \* number of times the slot was dropped from outside
  startpc,         \* per stream, getKyselyChanges: none / creating / returned / rejected
  config,          \* the arguments of the getKyselyChanges call whose decoder runs
  raw,             \* the raw change records handed to the decoder so far
  emitted          \* the events the decoder passed to subject.next

rvars == <<sub, upstream, runningQuery, queueNextQuery, lastResult, inFlight,
           started, nexts, changes, rejected, rejectedActive, nResolved,
           firstResolved, invalDuringRun, lastN, inval>>

dvars == <<config, raw, emitted>>

tvars == <<currentlyGettingChanges, session, slot, interval, clientQueue,
           pollpc, tdpc, subject, wal, committed, observers, received,
           getsInPoll, lastPoll, skippedByOther, skippedOwn, tdCalls, releaseCalls,
           lastDrop, operatorDrops, startpc, dvars>>

vars == <<rvars, tvars>>

runner == <<runningQuery, queueNextQuery, inFlight, started>>

----------------------------------------------------------------------------
(* rxjs: what the calls the code makes on Subscriber and Subject do.       *)

\* subscriber.next(v): delivered only while the subscriber is not closed.
\* (_Closed: delivered to a closed subscriber too)
SubscriberNext_Closed(s, log, v) == Append(log, v)
SubscriberNext(s, log, v) == IF s = "active" THEN Append(log, v) ELSE log

\* subscriber.error(e): closes an active subscriber, a no-op otherwise.
SubscriberError(s) == IF s = "active" THEN "errored" ELSE s

\* subscriber.complete()
\* (_Ignored: the complete callback of the observer left empty)
SubscriberComplete_Ignored(s) == s
SubscriberComplete(s) == IF s = "active" THEN "completed" ELSE s

\* subject.subscribe(observer) at subscription time: a closed subject
\* notifies the observer at once.
SubjectSubscribe(up) ==
  CASE up = "open" -> "active"
    [] up = "completed" -> SubscriberComplete("active")
    [] up = "errored" -> SubscriberError("active")

\* The next handler is attached to the subject while the subscriber is active.
Attached == sub = "active" /\ upstream = "open"

----------------------------------------------------------------------------
(* The closure state the coalescing logic works on, as a record.           *)

Closure == [runningQuery |-> runningQuery, queueNextQuery |-> queueNextQuery,
            inFlight |-> inFlight, started |-> started]

\* runQueryAndCallNextIfExists, its synchronous part: query() is invoked and
\* runningQuery holds the promise chain.
runQueryAndCallNextIfExists(c) ==
  [c EXCEPT !.runningQuery = "promise",
            !.inFlight = c.inFlight + 1,
            !.started = c.started + 1]

\* if (runningQuery === undefined && queueNextQuery === undefined)
\* (_IgnoresRunning: the test without its first conjunct)
ShouldRunNow_IgnoresRunning(rq, q) == q = FALSE
ShouldRunNow(rq, q) == rq = "undefined" /\ q = FALSE

\* else if (runningQuery !== undefined && queueNextQuery === undefined)
\* (_Never: the branch never taken)
ShouldQueue_Never(rq, q) == FALSE
ShouldQueue(rq, q) == rq # "undefined" /\ q = FALSE

\* The if (shouldReRunQuery) block.
Invalidate(c) ==
  IF ShouldRunNow(c.runningQuery, c.queueNextQuery)
    THEN runQueryAndCallNextIfExists(c)
    ELSE IF ShouldQueue(c.runningQuery, c.queueNextQuery)
           THEN [c EXCEPT !.queueNextQuery = TRUE]
           ELSE c

\* The .then callback of a run: the run is over, and a queued run starts.
\* (_KeepsQueue: without queueNextQuery = undefined)
ThenCallback_KeepsQueue(c) ==
  LET done == [c EXCEPT !.runningQuery = "undefined",
                        !.inFlight = c.inFlight - 1]
  IN  IF c.queueNextQuery THEN runQueryAndCallNextIfExists(done) ELSE done
ThenCallback(c) ==
  LET done == [c EXCEPT !.runningQuery = "undefined",
                        !.inFlight = c.inFlight - 1]
  IN  IF c.queueNextQuery
        THEN runQueryAndCallNextIfExists([done EXCEPT !.queueNextQuery = FALSE])
        ELSE done

SetClosure(c) ==
  /\ runningQuery' = c.runningQuery
  /\ queueNextQuery' = c.queueNextQuery
  /\ inFlight' = c.inFlight
  /\ started' = c.started

\* handlerMap[change.table] is an object and has a handler for change.event
HasTable(t) == t \in DOMAIN handlerMap
HasHandler(t, e) == HasTable(t) /\ e \in handlerMap[t]

\* shouldReRunQuery after the handler, if any, has resolved.
\* (_Always: whatever the handler resolved to)
shouldReRunQuery_Always(verdict) == verdict \in {"true", "false"}
shouldReRunQuery(verdict) == verdict = "true"

Pending == {k \in 1..Len(changes) : changes[k].verdict = "pending"}

----------------------------------------------------------------------------
\* The streams of the process and the observers of a subject.
Streams == {"A", "B"}
Obs == {"o1", "o2"}

\* Table names are kept as their dot-separated parts: <<"widgets">> is
\* "widgets" and <<"other", "gadgets">> is "other.gadgets".
Dotted(table) == Len(table) = 2

\* Raw change records decoded in one behaviour at most.
MaxDecoded == 2

\* The getKyselyChanges calls considered: the tables asked for, the
\* assumeSchema option and the primaryKeyMap argument.
DefaultConfig ==
  [onlyIncludeTables |-> {<<"widgets">>}, assumeSchema |-> "public",
   primaryKeyMap |-> <<>>]
Configs ==
  { DefaultConfig,
    [onlyIncludeTables |-> {<<"widgets">>}, assumeSchema |-> "public",
     primaryKeyMap |-> [t \in {<<"widgets">>} |-> <<"id", "kind">>]],
    [onlyIncludeTables |-> {<<"public", "widgets">>, <<"other", "gadgets">>},
     assumeSchema |-> "public", primaryKeyMap |-> <<>>],
    [onlyIncludeTables |-> {<<"widgets">>, <<"other", "gadgets">>},
     assumeSchema |-> "public", primaryKeyMap |-> <<>>] }

\* The raw records of wal2json: columns for insert and update, oldkeys (the
\* replica identity: the key, or every column) for update and delete; a
\* record of another kind carries neither.
Keys(full) ==
  IF full THEN [keynames |-> <<"id", "kind">>, keyvalues |-> <<"7", "slinky">>]
          ELSE [keynames |-> <<"id">>, keyvalues |-> <<"7">>]
WALChange(kind, sch, t, full) ==
  CASE kind = "insert" ->
         [kind |-> kind, schema |-> sch, table |-> t,
          columnnames |-> <<"id", "kind">>, columnvalues |-> <<"7", "slinky">>]
    [] kind = "update" ->
         [kind |-> kind, schema |-> sch, table |-> t,
          columnnames |-> <<"id", "kind">>, columnvalues |-> <<"7", "yoyo">>,
          oldkeys |-> Keys(full)]
    [] kind = "delete" ->
         [kind |-> kind, schema |-> sch, table |-> t, oldkeys |-> Keys(full)]
    [] OTHER -> [kind |-> kind, schema |-> sch, table |-> t]
RawChanges ==
  { WALChange(k, sch, t, full) :
      k \in {"insert", "update", "delete", "truncate"},
      sch \in {"public", "other"}, t \in {"widgets", "gadgets"},
      full \in BOOLEAN }

\* const isUsingMultipleSchemas = onlyIncludeTables.some(... includes("."))
isUsingMultipleSchemas(onlyIncludeTables) ==
  \E table \in onlyIncludeTables : Dotted(table)

\* addTablesString of getChanges: the tables the database is asked for.
addTablesString(onlyIncludeTables, schema) ==
  { IF Dotted(table) THEN table ELSE <<schema>> \o table :
      table \in onlyIncludeTables }

\* The database returns records of the tables of the add-tables option only.
Admissible(c, change) ==
  <<change.schema, change.table>> \in
    addTablesString(c.onlyIncludeTables, c.assumeSchema)

\* Object.fromEntries(names.map((name, index) => [name, values[index]]))
fromEntries(names, values) ==
  [name \in {names[i] : i \in 1..Len(names)} |->
     values[CHOOSE i \in 1..Len(names) :
              /\ names[i] = name
              /\ \A j \in 1..Len(names) : names[j] = name => j <= i]]

\* const tableKey = !isUsingMultipleSchemas ? change.table
\*                                          : `${schema}.${change.table}`
tableKey(multi, schema, change) ==
  IF ~multi THEN <<change.table>> ELSE <<schema, change.table>>

\* The body of the decoder loop: the events passed to subject.next for one
\* change, by the three if statements on change.kind.
\* (_DeleteHasRow: the delete branch builds the event of the other two)
decodeChange_DeleteHasRow(multi, schema, change) ==
  CASE change.kind \in {"insert", "update"} ->
         << [table |-> tableKey(multi, schema, change), event |-> change.kind,
             row |-> fromEntries(change.columnnames, change.columnvalues)] >>
    [] change.kind = "delete" ->
         << [table |-> tableKey(multi, schema, change), event |-> change.kind,
             row |-> fromEntries(change.oldkeys.keynames,
                                 change.oldkeys.keyvalues)] >>
    [] OTHER -> <<>>
decodeChange(multi, schema, change) ==
  CASE change.kind \in {"insert", "update"} ->
         << [table |-> tableKey(multi, schema, change), event |-> change.kind,
             row |-> fromEntries(change.columnnames, change.columnvalues)] >>
    [] change.kind = "delete" ->
         << [table |-> tableKey(multi, schema, change), event |-> change.kind,
             identity |-> fromEntries(change.oldkeys.keynames,
                                      change.oldkeys.keyvalues)] >>
    [] OTHER -> <<>>

\* for (const change of payload.data.change) { ... }
RECURSIVE decodeChanges(_, _, _)
decodeChanges(multi, schema, batch) ==
  IF batch = <<>> THEN <<>>
  ELSE decodeChange(multi, schema, Head(batch))
         \o decodeChanges(multi, schema, Tail(batch))

\* The decoder of a getKyselyChanges call with arguments c, before any batch.
DInit(c) ==
  /\ config = c
  /\ raw = <<>>
  /\ emitted = <<>>

\* The tailer after getKyselyChanges has returned for the streams of live:
\* the client is held, the slot exists and the timer is set.
TInit(live) ==
  /\ currentlyGettingChanges = FALSE
  /\ session = [s \in Streams |-> IF s \in live THEN "held" ELSE "none"]
  /\ slot = [s \in Streams |-> s \in live]
  /\ interval = [s \in Streams |-> s \in live]
  /\ clientQueue = [s \in Streams |-> <<>>]
  /\ pollpc = [s \in Streams |-> "idle"]
  /\ tdpc = [s \in Streams |-> "none"]
  /\ subject = [s \in Streams |-> "open"]
  /\ wal = [s \in Streams |-> <<>>]
  /\ committed = [s \in Streams |-> 0]
  /\ observers = [s \in Streams |-> {}]
  /\ received = [s \in Streams |-> [o \in Obs |-> <<>>]]
  /\ getsInPoll = [s \in Streams |-> 0]
  /\ lastPoll = [s \in Streams |-> [kind |-> "none", raised |-> FALSE, gets |-> 0]]
  /\ skippedByOther = [s \in Streams |-> FALSE]
  /\ skippedOwn = [s \in Streams |-> FALSE]
  /\ startpc = [s \in Streams |-> IF s \in live THEN "returned" ELSE "none"]
  /\ tdCalls = [s \in Streams |-> 0]
  /\ releaseCalls = [s \in Streams |-> 0]
  /\ lastDrop = [s \in Streams |-> "none"]
  /\ operatorDrops = 0

RInit ==
  /\ sub = "none"
  /\ upstream = "open"
  /\ runningQuery = "undefined"
  /\ queueNextQuery = FALSE
  /\ lastResult = "undefined"
  /\ inFlight = 0
  /\ started = 0
  /\ nexts = <<>>
  /\ changes = <<>>
  /\ rejected = FALSE
  /\ rejectedActive = FALSE
  /\ nResolved = 0
  /\ firstResolved = "undefined"
  /\ invalDuringRun = 0
  /\ lastN = 0
  /\ inval = "none"

Init == RInit /\ TInit({"A"}) /\ DInit(DefaultConfig)

\* observable.subscribe(): the first run is kicked off, then the next
\* handler is attached to the subject.
\* (_NoInitialRun: without the first invocation)
Subscribe_NoInitialRun ==
  /\ UNCHANGED tvars
  /\ sub = "none"
  /\ sub' = SubjectSubscribe(upstream)
  /\ UNCHANGED <<upstream, runner, lastResult, nexts, changes, rejected,
                 rejectedActive, nResolved, firstResolved, invalDuringRun,
                 lastN, inval>>
Subscribe ==
  /\ UNCHANGED tvars
  /\ sub = "none"
  /\ SetClosure(runQueryAndCallNextIfExists(Closure))
  /\ sub' = SubjectSubscribe(upstream)
  /\ UNCHANGED <<upstream, lastResult, nexts, changes, rejected,
                 rejectedActive, nResolved, firstResolved, invalDuringRun,
                 lastN, inval>>

\* The history of an invalidation applied to closure c giving closure d.
Accepted(c, d) ==
  /\ invalDuringRun' = IF d.started > c.started THEN 0
                       ELSE IF c.inFlight > 0 THEN invalDuringRun + 1
                       ELSE invalDuringRun
  /\ inval' = IF d.started > c.started
                THEN (IF sub = "active" \/ inval # "none" THEN "covered" ELSE inval)
                ELSE (IF sub = "active" THEN "owed" ELSE inval)

\* subject.next(change) reaches the async next handler: without a handler
\* the function runs to its end, with one it invokes the handler with
\* lastResult and suspends at the await.
\* (_NoAwait: the promise the handler returns taken as its result)
OnChange_NoAwait(t, e) ==
  /\ UNCHANGED tvars
  /\ Attached
  /\ Len(changes) < MaxChanges
  /\ IF HasHandler(t, e)
       THEN /\ changes' = Append(changes,
                 [verdict |-> "true", seen |-> lastResult])
            /\ SetClosure(Invalidate(Closure))
            /\ Accepted(Closure, Invalidate(Closure))
       ELSE /\ changes' = Append(changes,
                 [verdict |-> IF HasTable(t) THEN "nohandler" ELSE "notable",
                  seen |-> "none"])
            /\ UNCHANGED <<runner, invalDuringRun, inval>>
  /\ UNCHANGED <<sub, upstream, lastResult, nexts, rejected, rejectedActive,
                 nResolved, firstResolved, lastN>>
OnChange(t, e) ==
  /\ UNCHANGED tvars
  /\ Attached
  /\ Len(changes) < MaxChanges
  /\ changes' = Append(changes,
       IF HasHandler(t, e)
         THEN [verdict |-> "pending", seen |-> lastResult]
         ELSE [verdict |-> IF HasTable(t) THEN "nohandler" ELSE "notable",
               seen |-> "none"])
  /\ UNCHANGED <<sub, upstream, runner, lastResult, nexts, rejected,
                 rejectedActive, nResolved, firstResolved, invalDuringRun,
                 lastN, inval>>

\* The handler of change k settles and the next handler resumes after the
\* await: verdict is what the handler resolved to, or "throw".  A rejection
\* rejects the promise of the async next handler, which nobody observes.
HandlerSettles(k, verdict) ==
  /\ UNCHANGED tvars
  /\ k \in Pending
  /\ changes' = [changes EXCEPT ![k].verdict = verdict]
  /\ IF shouldReRunQuery(verdict)
       THEN /\ SetClosure(Invalidate(Closure))
            /\ Accepted(Closure, Invalidate(Closure))
       ELSE UNCHANGED <<runner, invalDuringRun, inval>>
  /\ UNCHANGED <<sub, upstream, lastResult, nexts, rejected, rejectedActive,
                 nResolved, firstResolved, lastN>>

\* A query() promise resolves with v and the .then callback runs.
\* (_StaleResult: lastResult assigned by the first run only)
QueryResolves_StaleResult(v) ==
  /\ UNCHANGED tvars
  /\ inFlight > 0
  /\ lastResult' = IF lastResult = "undefined" THEN v ELSE lastResult
  /\ nexts' = SubscriberNext(sub, nexts, v)
  /\ SetClosure(ThenCallback(Closure))
  /\ nResolved' = nResolved + 1
  /\ firstResolved' = IF nResolved = 0 THEN v ELSE firstResolved
  /\ lastN' = invalDuringRun
  /\ invalDuringRun' = 0
  /\ inval' = IF ThenCallback(Closure).started > started
                THEN (IF inval = "none" THEN "none" ELSE "covered")
                ELSE IF inval = "covered" /\ sub = "active" THEN "none"
                ELSE inval
  /\ UNCHANGED <<sub, upstream, changes, rejected, rejectedActive>>
QueryResolves(v) ==
  /\ UNCHANGED tvars
  /\ inFlight > 0
  /\ lastResult' = v
  /\ nexts' = SubscriberNext(sub, nexts, v)
  /\ SetClosure(ThenCallback(Closure))
  /\ nResolved' = nResolved + 1
  /\ firstResolved' = IF nResolved = 0 THEN v ELSE firstResolved
  /\ lastN' = invalDuringRun
  /\ invalDuringRun' = 0
  /\ inval' = IF ThenCallback(Closure).started > started
                THEN (IF inval = "none" THEN "none" ELSE "covered")
                ELSE IF inval = "covered" /\ sub = "active" THEN "none"
                ELSE inval
  /\ UNCHANGED <<sub, upstream, changes, rejected, rejectedActive>>

\* A query() promise rejects and the .catch callback runs: runningQuery
\* keeps the promise.
\* (_ResetsRunning: the callback also sets runningQuery = undefined)
QueryRejects_ResetsRunning ==
  /\ UNCHANGED tvars
  /\ inFlight > 0
  /\ inFlight' = inFlight - 1
  /\ runningQuery' = "undefined"
  /\ sub' = SubscriberError(sub)
  /\ rejected' = TRUE
  /\ rejectedActive' = (rejectedActive \/ sub = "active")
  /\ invalDuringRun' = 0
  /\ UNCHANGED <<upstream, queueNextQuery, lastResult, started,
                 nexts, changes, nResolved, firstResolved, lastN, inval>>
QueryRejects ==
  /\ UNCHANGED tvars
  /\ inFlight > 0
  /\ inFlight' = inFlight - 1
  /\ sub' = SubscriberError(sub)
  /\ rejected' = TRUE
  /\ rejectedActive' = (rejectedActive \/ sub = "active")
  /\ invalDuringRun' = 0
  /\ UNCHANGED <<upstream, runningQuery, queueNextQuery, lastResult, started,
                 nexts, changes, nResolved, firstResolved, lastN, inval>>

\* subscription.unsubscribe(): the teardown detaches the next handler.
Unsubscribe ==
  /\ UNCHANGED tvars
  /\ sub = "active"
  /\ sub' = "unsubscribed"
  /\ UNCHANGED <<upstream, runner, lastResult, nexts, changes, rejected,
                 rejectedActive, nResolved, firstResolved, invalDuringRun,
                 lastN, inval>>

\* subject.complete() and subject.error(e) upstream.
UpstreamCompletes ==
  /\ UNCHANGED tvars
  /\ upstream = "open"
  /\ upstream' = "completed"
  /\ sub' = SubscriberComplete(sub)
  /\ UNCHANGED <<runner, lastResult, nexts, changes, rejected,
                 rejectedActive, nResolved, firstResolved, invalDuringRun,
                 lastN, inval>>

UpstreamErrors ==
  /\ UNCHANGED tvars
  /\ upstream = "open"
  /\ upstream' = "errored"
  /\ sub' = SubscriberError(sub)
  /\ UNCHANGED <<runner, lastResult, nexts, changes, rejected,
                 rejectedActive, nResolved, firstResolved, invalDuringRun,
                 lastN, inval>>

Change == \E t \in Tables, e \in Events : OnChange(t, e)
HandlerDone == \E k \in 1..MaxChanges, v \in {"true", "false", "throw"} :
                 HandlerSettles(k, v)
QueryDone == \E v \in Results : QueryResolves(v)

Next ==
  \/ Subscribe
  \/ Change
  \/ HandlerDone
  \/ QueryDone
  \/ QueryRejects
  \/ Unsubscribe
  \/ UpstreamCompletes
  \/ UpstreamErrors

Spec == Init /\ [][Next]_vars

\* Promises settle: every query() run and every handler eventually settles.
LiveChange == Len(changes) < MaxLiveChanges /\ Change

LiveNext ==
  \/ Subscribe
  \/ LiveChange
  \/ HandlerDone
  \/ QueryDone
  \/ QueryRejects
  \/ Unsubscribe
  \/ UpstreamCompletes
  \/ UpstreamErrors

LiveSpec ==
  Init /\ [][LiveNext]_vars /\ WF_vars(QueryDone) /\ WF_vars(HandlerDone)

----------------------------------------------------------------------------
(* The change tailer: getChanges, the poll timer, the decoder loop and     *)
(* teardown of getKyselyChanges.                                           *)

\* What the database answers to the query at the head of a client's queue:
\* pg_logical_slot_get_changes fails with 42704 without the slot, creating
\* needs the slot absent, dropping needs it present; fail is any other
\* failure of a get-changes or create request.
DbResult(op, hasSlot, fail) ==
  CASE op = "get" -> IF ~hasSlot THEN "42704" ELSE IF fail THEN "error" ELSE "ok"
    [] op = "create" -> IF hasSlot \/ fail THEN "error" ELSE "ok"
    [] op = "drop" -> IF ~hasSlot THEN "error" ELSE "ok"

\* The change handler given to getChanges: for each payload, for each change
\* of its data.change, in order, one subject.next(event).
\* (_Reversed: the inner loop walks the change array from its end)
RECURSIVE Reverse(_)
Reverse(q) == IF q = <<>> THEN <<>> ELSE Append(Reverse(Tail(q)), Head(q))

RECURSIVE changeHandler_Reversed(_)
changeHandler_Reversed(payloads) ==
  IF payloads = <<>> THEN <<>>
  ELSE Reverse(Head(payloads)) \o changeHandler_Reversed(Tail(payloads))

RECURSIVE changeHandler(_)
changeHandler(payloads) ==
  IF payloads = <<>> THEN <<>>
  ELSE Head(payloads) \o changeHandler(Tail(payloads))

\* subject.next(event) for each event: every observer subscribed to an open
\* subject receives it, synchronously.
SubjectNext(subj, obs, rcv, events) ==
  IF subj = "open"
    THEN [o \in Obs |-> IF o \in obs THEN rcv[o] \o events ELSE rcv[o]]
    ELSE rcv

\* dropSlot: the catch block swallows whatever the drop request raised.
\* (_Rethrows: without the try/catch)
dropSlot_Rethrows(res) == IF res = "ok" THEN "resolved" ELSE "rejected"
dropSlot(res) == "resolved"

Enqueue(s, op) ==
  clientQueue' = [clientQueue EXCEPT ![s] = Append(@, op)]
Requeue(s, op) ==
  clientQueue' = [clientQueue EXCEPT ![s] = Append(Tail(@), op)]
Dequeue(s) ==
  clientQueue' = [clientQueue EXCEPT ![s] = Tail(@)]

HeadIs(s, op) == clientQueue[s] # <<>> /\ Head(clientQueue[s]) = op

\* The finally block of getChanges, with how the invocation ended.
\* (_KeepsFlag: without currentlyGettingChanges = false)
EndPoll_KeepsFlag(s, kind, raised) ==
  /\ UNCHANGED currentlyGettingChanges
  /\ pollpc' = [pollpc EXCEPT ![s] = "idle"]
  /\ lastPoll' = [lastPoll EXCEPT ![s] =
                    [kind |-> kind, raised |-> raised, gets |-> getsInPoll[s]]]
EndPoll(s, kind, raised) ==
  /\ currentlyGettingChanges' = FALSE
  /\ pollpc' = [pollpc EXCEPT ![s] = "idle"]
  /\ lastPoll' = [lastPoll EXCEPT ![s] =
                    [kind |-> kind, raised |-> raised, gets |-> getsInPoll[s]]]

\* The timer fires: getChanges returns at once if the flag is set, else it
\* sets the flag and sends the get-changes request.
\* (_NoGuard: without the test of the flag)
Tick_NoGuard(s) ==
  /\ interval[s]
  /\ currentlyGettingChanges' = TRUE
  /\ Enqueue(s, "get")
  /\ pollpc' = [pollpc EXCEPT ![s] = "getting"]
  /\ getsInPoll' = [getsInPoll EXCEPT ![s] = 1]
  /\ UNCHANGED <<rvars, dvars, startpc, session, slot, interval, tdpc,
                 subject, wal, committed, observers, received, lastPoll,
                 skippedByOther, skippedOwn, tdCalls, releaseCalls, lastDrop,
                 operatorDrops>>
Tick(s) ==
  /\ interval[s]
  /\ IF currentlyGettingChanges
       THEN /\ skippedByOther' =
                 [skippedByOther EXCEPT ![s] = @ \/ pollpc[s] = "idle"]
            /\ skippedOwn' =
                 [skippedOwn EXCEPT ![s] = @ \/ pollpc[s] # "idle"]
            /\ UNCHANGED <<currentlyGettingChanges, clientQueue, pollpc,
                           getsInPoll>>
       ELSE /\ currentlyGettingChanges' = TRUE
            /\ Enqueue(s, "get")
            /\ pollpc' = [pollpc EXCEPT ![s] = "getting"]
            /\ getsInPoll' = [getsInPoll EXCEPT ![s] = 1]
            /\ UNCHANGED <<skippedByOther, skippedOwn>>
  /\ UNCHANGED <<rvars, dvars, startpc, session, slot, interval, tdpc, subject, wal,
                 committed, observers, received, lastPoll, tdCalls,
                 releaseCalls, lastDrop, operatorDrops>>

\* The get-changes request settles and getChanges resumes: the batch goes
\* through the change handler; on 42704 the catch block asks for the slot
\* to be created; any other error is rethrown.  The finally block clears
\* the flag.  A request of the inner getChanges (retrying) ends the inner
\* and then the outer invocation, which rethrows.
GetSettles(s, fail) ==
  /\ HeadIs(s, "get")
  /\ LET res == DbResult("get", slot[s], fail) IN
       CASE res = "ok" ->
              /\ received' = [received EXCEPT ![s] =
                   SubjectNext(subject[s], observers[s], @, changeHandler(wal[s]))]
              /\ wal' = [wal EXCEPT ![s] = <<>>]
              /\ Dequeue(s)
              /\ EndPoll(s, IF pollpc[s] = "retrying" THEN "recovered" ELSE "ok",
                         pollpc[s] = "retrying")
         [] res = "42704" ->
              /\ Requeue(s, "create")
              /\ pollpc' = [pollpc EXCEPT ![s] = "creating"]
              /\ UNCHANGED <<received, wal, currentlyGettingChanges, lastPoll>>
         [] res = "error" ->
              /\ Dequeue(s)
              /\ EndPoll(s, "error", TRUE)
              /\ UNCHANGED <<received, wal>>
  /\ UNCHANGED <<rvars, dvars, startpc, session, slot, interval, tdpc, subject, committed,
                 observers, getsInPoll, skippedByOther, skippedOwn, tdCalls, releaseCalls,
                 lastDrop, operatorDrops>>

\* The create request of the catch block settles: createSlot rethrows a
\* failure; after a success getChanges is called again, which returns at
\* once if the flag is set, and then the catch block rethrows the 42704.
CreateSettles(s, fail) ==
  /\ HeadIs(s, "create")
  /\ LET res == DbResult("create", slot[s], fail) IN
       IF res = "ok"
         THEN /\ slot' = [slot EXCEPT ![s] = TRUE]
              /\ IF currentlyGettingChanges
                   THEN /\ Dequeue(s)
                        /\ EndPoll(s, "recovered", TRUE)
                        /\ UNCHANGED getsInPoll
                   ELSE /\ currentlyGettingChanges' = TRUE
                        /\ Requeue(s, "get")
                        /\ pollpc' = [pollpc EXCEPT ![s] = "retrying"]
                        /\ getsInPoll' = [getsInPoll EXCEPT ![s] = @ + 1]
                        /\ UNCHANGED lastPoll
         ELSE /\ Dequeue(s)
              /\ EndPoll(s, "recreateFailed", TRUE)
              /\ UNCHANGED <<slot, getsInPoll>>
  /\ UNCHANGED <<rvars, dvars, startpc, session, interval, tdpc, subject, wal, committed,
                 observers, received, skippedByOther, skippedOwn, tdCalls, releaseCalls,
                 lastDrop, operatorDrops>>

\* teardown(): clearInterval, then the drop request is sent on the client.
Teardown(s) ==
  /\ session[s] # "none"
  /\ startpc[s] = "returned"
  /\ tdpc[s] \in {"none", "done"}
  /\ tdCalls[s] < MaxTeardowns
  /\ tdCalls' = [tdCalls EXCEPT ![s] = @ + 1]
  /\ interval' = [interval EXCEPT ![s] = FALSE]
  /\ Enqueue(s, "drop")
  /\ tdpc' = [tdpc EXCEPT ![s] = "dropping"]
  /\ UNCHANGED <<rvars, dvars, startpc, currentlyGettingChanges, session, slot, pollpc,
                 subject, wal, committed, observers, received, getsInPoll,
                 lastPoll, skippedByOther, skippedOwn, releaseCalls, lastDrop,
                 operatorDrops>>

\* The drop request settles and teardown resumes with client.release(),
\* which the pool refuses for a client already released.
\* (_CompletesFirst: subject.complete() put before the release)
DropSettles_CompletesFirst(s, fail) ==
  /\ HeadIs(s, "drop")
  /\ tdpc[s] = "dropping"
  /\ LET res == DbResult("drop", slot[s], fail) IN
       /\ lastDrop' = [lastDrop EXCEPT ![s] = res]
       /\ slot' = [slot EXCEPT ![s] = IF res = "ok" THEN FALSE ELSE @]
       /\ wal' = [wal EXCEPT ![s] = IF res = "ok" THEN <<>> ELSE @]
       /\ Dequeue(s)
       /\ subject' = [subject EXCEPT ![s] = IF @ = "open" THEN "completed" ELSE @]
       /\ observers' = [observers EXCEPT ![s] = {}]
       /\ tdpc' = [tdpc EXCEPT ![s] = "done"]
       /\ UNCHANGED <<session, releaseCalls>>
  /\ UNCHANGED <<rvars, dvars, startpc, currentlyGettingChanges, interval, pollpc,
                 committed, received, getsInPoll, lastPoll,
                 skippedByOther, skippedOwn, tdCalls, operatorDrops>>
DropSettles(s, fail) ==
  /\ HeadIs(s, "drop")
  /\ tdpc[s] = "dropping"
  /\ LET res == DbResult("drop", slot[s], fail) IN
       /\ lastDrop' = [lastDrop EXCEPT ![s] = res]
       /\ slot' = [slot EXCEPT ![s] = IF res = "ok" THEN FALSE ELSE @]
       /\ wal' = [wal EXCEPT ![s] = IF res = "ok" THEN <<>> ELSE @]
       /\ Dequeue(s)
       /\ IF dropSlot(res) = "resolved"
            THEN /\ releaseCalls' = [releaseCalls EXCEPT ![s] = @ + 1]
                 /\ session' = [session EXCEPT ![s] = "released"]
                 /\ tdpc' = [tdpc EXCEPT ![s] =
                      IF session[s] = "held" THEN "releasing" ELSE "failed"]
            ELSE /\ tdpc' = [tdpc EXCEPT ![s] = "failed"]
                 /\ UNCHANGED <<session, releaseCalls>>
  /\ UNCHANGED <<rvars, dvars, startpc, currentlyGettingChanges, interval, pollpc, subject,
                 committed, observers, received, getsInPoll, lastPoll,
                 skippedByOther, skippedOwn, tdCalls, operatorDrops>>

\* teardown resumes after await client.release(): subject.complete().
TeardownCompletes(s) ==
  /\ tdpc[s] = "releasing"
  /\ subject' = [subject EXCEPT ![s] = IF @ = "open" THEN "completed" ELSE @]
  /\ observers' = [observers EXCEPT ![s] = {}]
  /\ tdpc' = [tdpc EXCEPT ![s] = "done"]
  /\ UNCHANGED <<rvars, dvars, startpc, currentlyGettingChanges, session, slot, interval,
                 clientQueue, pollpc, wal, committed, received, getsInPoll,
                 lastPoll, skippedByOther, skippedOwn, tdCalls, releaseCalls, lastDrop,
                 operatorDrops>>

\* The environment.  A transaction on the tables of the stream commits n
\* records, kept by the slot as one row; records are numbered in write order.
Commit(s, n) ==
  /\ slot[s]
  /\ committed[s] + n <= MaxRecords
  /\ wal' = [wal EXCEPT ![s] =
               Append(@, [i \in 1..n |-> committed[s] + i])]
  /\ committed' = [committed EXCEPT ![s] = @ + n]
  /\ UNCHANGED <<rvars, dvars, startpc, currentlyGettingChanges, session, slot, interval,
                 clientQueue, pollpc, tdpc, subject, observers, received,
                 getsInPoll, lastPoll, skippedByOther, skippedOwn, tdCalls, releaseCalls,
                 lastDrop, operatorDrops>>

\* The slot goes away behind the stream's back.
OperatorDropsSlot(s) ==
  /\ slot[s]
  /\ operatorDrops < MaxOperatorDrops
  /\ operatorDrops' = operatorDrops + 1
  /\ slot' = [slot EXCEPT ![s] = FALSE]
  /\ wal' = [wal EXCEPT ![s] = <<>>]
  /\ UNCHANGED <<rvars, dvars, startpc, currentlyGettingChanges, session, interval,
                 clientQueue, pollpc, tdpc, subject, committed, observers,
                 received, getsInPoll, lastPoll, skippedByOther, skippedOwn, tdCalls,
                 releaseCalls, lastDrop>>

\* subject.subscribe(observer) by a user of the stream.
ObserverSubscribes(s, o) ==
  /\ session[s] # "none"
  /\ startpc[s] = "returned"
  /\ subject[s] = "open"
  /\ o \notin observers[s]
  /\ received[s][o] = <<>>
  /\ observers' = [observers EXCEPT ![s] = @ \cup {o}]
  /\ UNCHANGED <<rvars, dvars, startpc, currentlyGettingChanges, session, slot, interval,
                 clientQueue, pollpc, tdpc, subject, wal, committed, received,
                 getsInPoll, lastPoll, skippedByOther, skippedOwn, tdCalls, releaseCalls,
                 lastDrop, operatorDrops>>

RequestSettles(s) ==
  \E fail \in BOOLEAN :
    GetSettles(s, fail) \/ CreateSettles(s, fail) \/ DropSettles(s, fail)

StreamStep(s) ==
  \/ Tick(s)
  \/ RequestSettles(s)
  \/ Teardown(s)
  \/ TeardownCompletes(s)
  \/ \E n \in 1..MaxRowLen : Commit(s, n)
  \/ OperatorDropsSlot(s)
  \/ \E o \in Obs : ObserverSubscribes(s, o)

\* One stream.
TailerNext == StreamStep("A")

TailerSpec == Init /\ [][TailerNext]_vars

\* Two streams of one process, polling.
PairInit == RInit /\ TInit(Streams) /\ DInit(DefaultConfig)

PairNext ==
  \E s \in Streams :
    \/ Tick(s)
    \/ RequestSettles(s)
    \/ OperatorDropsSlot(s)
    \/ Teardown(s)
    \/ TeardownCompletes(s)

PairSpec == PairInit /\ [][PairNext]_vars

\* getKyselyChanges is called for a stream: pg.connect() has resolved, the
\* subject is made and createSlot has sent its request on the new client.
GetKyselyChanges(s) ==
  /\ startpc[s] = "none"
  /\ session' = [session EXCEPT ![s] = "held"]
  /\ startpc' = [startpc EXCEPT ![s] = "creating"]
  /\ UNCHANGED <<rvars, dvars, currentlyGettingChanges, slot, interval,
                 clientQueue, pollpc, tdpc, subject, wal, committed,
                 observers, received, getsInPoll, lastPoll, skippedByOther,
                 skippedOwn, tdCalls, releaseCalls, lastDrop, operatorDrops>>

\* The create request of getKyselyChanges settles: createSlot rethrows a
\* failure (reworded for 58P01) and the call rejects there; after a success
\* the timer is set and the call returns subject and teardown.
SlotCreated(s, fail) ==
  /\ startpc[s] = "creating"
  /\ IF DbResult("create", slot[s], fail) = "ok"
       THEN /\ slot' = [slot EXCEPT ![s] = TRUE]
            /\ interval' = [interval EXCEPT ![s] = TRUE]
            /\ startpc' = [startpc EXCEPT ![s] = "returned"]
       ELSE /\ startpc' = [startpc EXCEPT ![s] = "rejected"]
            /\ UNCHANGED <<slot, interval>>
  /\ UNCHANGED <<rvars, dvars, currentlyGettingChanges, session,
                 clientQueue, pollpc, tdpc, subject, wal, committed,
                 observers, received, getsInPoll, lastPoll, skippedByOther,
                 skippedOwn, tdCalls, releaseCalls, lastDrop, operatorDrops>>

\* One stream, from the call of getKyselyChanges on.
StartInit == RInit /\ TInit({}) /\ DInit(DefaultConfig)

StartNext ==
  \/ GetKyselyChanges("A")
  \/ \E fail \in BOOLEAN : SlotCreated("A", fail)
  \/ StreamStep("A")

StartSpec == StartInit /\ [][StartNext]_vars

\* The change handler runs on a batch the database returned.
Batches ==
  UNION { [1..n -> {change \in RawChanges : Admissible(config, change)}] :
            n \in 1..(MaxDecoded - Len(raw)) }

HandleBatch(batch) ==
  /\ Len(raw) + Len(batch) <= MaxDecoded
  /\ \A i \in 1..Len(batch) : Admissible(config, batch[i])
  /\ raw' = raw \o batch
  /\ emitted' = emitted \o
       decodeChanges(isUsingMultipleSchemas(config.onlyIncludeTables),
                     config.assumeSchema, batch)
  /\ UNCHANGED <<rvars, config, currentlyGettingChanges, session, slot,
                 interval, clientQueue, pollpc, tdpc, subject, wal, committed,
                 observers, received, getsInPoll, lastPoll, skippedByOther,
                 skippedOwn, tdCalls, releaseCalls, lastDrop, operatorDrops,
                 startpc>>

DecoderInit == RInit /\ TInit({"A"}) /\ \E c \in Configs : DInit(c)

DecoderNext == \E batch \in Batches : HandleBatch(batch)

DecoderSpec == DecoderInit /\ [][DecoderNext]_vars

\* A getChanges invocation in progress holds the flag, so the getChanges
\* call of the catch block never gets past the flag test.
PollHoldsFlag ==
  \A s \in Streams :
    /\ pollpc[s] # "idle" => currentlyGettingChanges
    /\ pollpc[s] # "retrying"

----------------------------------------------------------------------------
(* The claims.                                                             *)

\* C1: in every reachable state of a subscription at most one query() run
\* is in flight (started and not yet settled).
C1_AtMostOneInFlight == inFlight <= 1

\* A run in flight with a follow-up queued while another handler is pending.
C1_Witness == inFlight = 1 /\ queueNextQuery /\ Pending # {}

\* C2: when a run resolves, exactly one further run is started if one or
\* more invalidations were applied while it was in flight, and none if no
\* invalidation was applied: N invalidations give one run, not zero, not N.
C2_CoalescedRerun ==
  [][nResolved' = nResolved + 1 =>
       started' - started = (IF invalDuringRun >= 1 THEN 1 ELSE 0)]_vars

\* Two invalidations were applied during the first run and exactly one
\* follow-up run is in flight.
C2_Witness == lastN >= 2 /\ started = 2 /\ inFlight = 1

\* C3: an invalidation accepted while the subscriber is active is not
\* dropped: until a run starts at or after it, a follow-up is queued behind
\* the run in flight; such a run does start, and its result reaches the
\* subscriber, unless a query() rejects or the subscriber stops being active.
C3_NoInvalidationDropped ==
  /\ [](inval = "owed" /\ ~rejected => queueNextQuery /\ inFlight = 1)
  /\ (inval = "owed") ~> (inval # "owed" \/ rejected)
  /\ (inval # "none") ~> (inval = "none" \/ rejected \/ sub # "active")

\* Two invalidations accepted during the initial run have been served by
\* one follow-up run, whose result the active subscriber received.
C3_Witness ==
  /\ inval = "none" /\ sub = "active"
  /\ started = 2 /\ Len(nexts) = 2
  /\ Cardinality({k \in 1..Len(changes) : changes[k].verdict = "true"}) = 2

\* C4: after unsubscribe() no new query() run is started.
C4_NoQueryAfterUnsubscribe ==
  [][sub = "unsubscribed" => started' = started]_vars

\* C5: after unsubscribe() the subscriber receives no further next; a run
\* that resolves afterwards has its result discarded.
C5_NoNextAfterUnsubscribe ==
  [][sub = "unsubscribed" => nexts' = nexts]_vars

\* A run resolved after unsubscribe() and nothing was delivered for it.
C5_Witness == sub = "unsubscribed" /\ nResolved > Len(nexts)

\* C6: a handler that throws or rejects while the subscriber is active
\* errors the subscriber.
C6_HandlerRejectionErrors ==
  [][\A k \in 1..Len(changes) :
       (changes[k].verdict = "pending" /\ changes'[k].verdict = "throw"
          /\ sub = "active") => sub' = "errored"]_vars

\* C7: a rejected query() run errors the subscriber that was active, and
\* no query() run is started after a rejection, whether a follow-up was
\* queued before it or an invalidation is applied after it.
C7_RejectionIsTerminal ==
  /\ [](rejectedActive => sub = "errored")
  /\ [][rejected => started' = started]_vars

\* After a rejection an invalidation has been applied (a follow-up is
\* queued) and every handler has settled, with no run in flight.
C7_Witness ==
  rejected /\ sub = "errored" /\ queueNextQuery /\ inFlight = 0
    /\ Pending = {}

\* C8: subscribing invokes query() exactly once, before any change is
\* evaluated; when that run resolves its value becomes lastResult and is
\* the first next of the subscriber, if it is still active.
C8_InitialRun ==
  [][/\ (sub = "none" /\ sub' # "none") =>
          (started' = 1 /\ inFlight' = 1 /\ changes' = <<>>)
     /\ (nResolved = 0 /\ nResolved' = 1) =>
          (/\ started = 1
           /\ lastResult' = firstResolved'
           /\ sub = "active" => nexts' = <<firstResolved'>>)]_vars

\* The initial run resolved before any change and was delivered.
C8_Witness ==
  nResolved = 1 /\ started = 1 /\ changes = <<>>
    /\ nexts = <<firstResolved>> /\ lastResult = firstResolved

\* C9: a change without a table entry, without a handler for its event, or
\* whose handler resolves false leaves runningQuery and queueNextQuery as
\* they are and starts no query().
C9_IgnoredChangeFrame ==
  [][\A k \in 1..Len(changes') :
       (/\ changes'[k].verdict \in {"notable", "nohandler", "false"}
        /\ (k > Len(changes) \/ changes[k].verdict # changes'[k].verdict))
       => UNCHANGED runner]_vars

\* All three kinds of ignored change reached an idle runner, and the
\* initial run is still the only one.
C9_Witness ==
  /\ started = 1 /\ nResolved = 1 /\ runningQuery = "undefined"
  /\ \A v \in {"notable", "nohandler", "false"} :
       \E k \in 1..Len(changes) : changes[k].verdict = v

\* C10 as stated: the handler of a change is not invoked until the handler
\* of the change before it has resolved, so at most one handler is pending.
C10_HandlersOneAtATime == Cardinality(Pending) <= 1

\* C10 as amended: changes are taken in delivery order, each one's handler
\* is invoked when the change is delivered, whether or not earlier handlers
\* are still pending, and the delivery itself applies no transition: the
\* transition of a change waits for that change's own handler.
C10_TransitionAfterOwnHandler ==
  [][Len(changes') > Len(changes) =>
       /\ SubSeq(changes', 1, Len(changes)) = changes
       /\ changes'[Len(changes')].verdict \in {"pending", "nohandler", "notable"}
       /\ UNCHANGED runner]_vars

\* The handler of a later change resolved true while the handler of an
\* earlier change is still pending.
C10_Witness ==
  \E j, k \in 1..Len(changes) :
    j < k /\ changes[j].verdict = "pending" /\ changes[k].verdict = "true"

\* C11: a second teardown() after the first has completed succeeds and
\* leaves the state as it was: slot absent, session released once, stream
\* completed.
C11_TeardownIdempotent ==
  \A s \in Streams :
    (tdCalls[s] >= 2 /\ tdpc[s] \in {"done", "failed"}) =>
      /\ tdpc[s] = "done"
      /\ releaseCalls[s] = 1
      /\ subject[s] = "completed"

\* C12: once teardown() has completed the slot does not exist, the session
\* is released and the stream has nothing left to run on it.
C12_SlotGoneAfterTeardown ==
  \A s \in Streams :
    tdpc[s] = "done" =>
      ~slot[s] /\ session[s] = "released" /\ clientQueue[s] = <<>>

\* C13: teardown() releases the session and completes the stream only once
\* a poll that was in flight when it was called has finished.
C13_TeardownAwaitsPoll ==
  \A s \in Streams : tdpc[s] \in {"releasing", "done"} => pollpc[s] = "idle"

\* C14: teardown() cancels the timer and sends the drop request; the
\* session is released when the drop request has settled, with the stream
\* not yet completed; the stream is completed after the release.
C14_TeardownOrder ==
  [][\A s \in Streams :
       /\ tdCalls'[s] > tdCalls[s] =>
            /\ ~interval'[s]
            /\ clientQueue'[s] = Append(clientQueue[s], "drop")
            /\ session'[s] = session[s] /\ subject'[s] = subject[s]
       /\ releaseCalls'[s] > releaseCalls[s] =>
            /\ ~interval[s]
            /\ HeadIs(s, "drop") /\ clientQueue'[s] = Tail(clientQueue[s])
            /\ subject'[s] = subject[s]
       /\ (subject[s] = "open" /\ subject'[s] = "completed") =>
            session[s] = "released" /\ ~interval[s]]_vars

\* A teardown() has gone through all its steps while an observer was
\* subscribed.
C14_Witness ==
  /\ tdpc["A"] = "done" /\ tdCalls["A"] = 1 /\ lastDrop["A"] = "ok"
  /\ ~interval["A"] /\ ~slot["A"] /\ session["A"] = "released"
  /\ subject["A"] = "completed" /\ received["A"]["o1"] # <<>>

\* C15: when the drop request of a teardown() fails, teardown goes on to
\* client.release(), and when that teardown has ended the session is
\* released and the stream completed.
C15_DropErrorSwallowed ==
  /\ [][\A s \in Streams :
          (tdpc[s] = "dropping" /\ tdpc'[s] # "dropping"
             /\ lastDrop'[s] = "error") =>
            /\ releaseCalls'[s] = releaseCalls[s] + 1
            /\ session'[s] = "released"]_vars
  /\ [](\A s \in Streams :
          (lastDrop[s] = "error" /\ tdpc[s] \in {"done", "failed"}) =>
            session[s] = "released" /\ subject[s] = "completed")

\* The slot was dropped from outside, the drop request of the only
\* teardown() failed, and teardown went through.
C15_Witness ==
  /\ operatorDrops = 1 /\ lastDrop["A"] = "error" /\ tdCalls["A"] = 1
  /\ tdpc["A"] = "done" /\ session["A"] = "released"
  /\ subject["A"] = "completed"

\* C16: a poll that met 42704 and re-created the slot has sent the
\* get-changes request a second time.
C16_RetryIssued ==
  \A s \in Streams : lastPoll[s].kind = "recovered" => lastPoll[s].gets = 2

\* C17: a poll that met 42704 and re-created the slot ends without raising.
C17_RecoveryAbsorbed ==
  \A s \in Streams : lastPoll[s].kind = "recovered" => ~lastPoll[s].raised

\* C18: when a poll ends on an error other than 42704 of its get-changes
\* request, the subject is errored.
C18_PollErrorReachesSubject ==
  [][\A s \in Streams :
       (pollpc[s] = "getting" /\ pollpc'[s] = "idle"
          /\ lastPoll'[s].kind = "error") => subject'[s] = "errored"]_vars

\* C19: no tick of a stream is skipped while that stream itself has no
\* poll in progress.
C19_GuardPerStream == \A s \in Streams : ~skippedByOther[s]

\* C20: every observer of a stream receives the records in the order they
\* were written: the sequence it received is strictly increasing, so
\* nothing is reordered or duplicated, within a poll or across polls.
C20_EventsInRecordOrder ==
  \A s \in Streams, o \in Obs :
    \A i, j \in 1..Len(received[s][o]) :
      i < j => received[s][o][i] < received[s][o][j]

\* One observer received a two-record row and then a record of a later
\* poll, which a second observer, subscribed in between, received alone.
C20_Witness ==
  received["A"]["o1"] = <<1, 2, 3>> /\ received["A"]["o2"] = <<3>>


\* The raw records of a known kind, in the order the decoder got them.
KnownKind(change) == change.kind \in {"insert", "update", "delete"}
Known == SelectSeq(raw, KnownKind)

\* A table name as the database knows it under configuration c.
Qualified(c, table) ==
  IF Dotted(table) THEN table ELSE <<c.assumeSchema>> \o table

\* C21: every event delivered has a table field that denotes one of the
\* configured tables (an unqualified name standing for assumeSchema.name),
\* given that the database only returns records of the tables asked for,
\* in single-schema and in multi-schema configurations.
C21_EventTableConfigured ==
  \A i \in 1..Len(emitted) :
    Qualified(config, emitted[i].table) \in
      { Qualified(config, table) : table \in config.onlyIncludeTables }

\* The identity columns declared for a table: primaryKeyMap[table], or id.
Declared(c, table) ==
  IF table \in DOMAIN c.primaryKeyMap
    THEN { c.primaryKeyMap[table][i] : i \in 1..Len(c.primaryKeyMap[table]) }
    ELSE {"id"}

\* C22: the identity of a delete event on table t carries exactly the
\* declared identity columns of t: {id} without an entry in primaryKeyMap,
\* the listed columns with one, and no other column of oldkeys.
C22_DeleteIdentityDeclared ==
  \A i \in 1..Len(emitted) :
    emitted[i].event = "delete" =>
      DOMAIN emitted[i].identity = Declared(config, emitted[i].table)

\* C24: the table field of an event is the record's table name alone when
\* no configured name contains a dot, and otherwise the record's own
\* schema, a dot, and the record's table.
C24_TableFieldQualified ==
  \A i \in 1..Len(emitted) :
    i <= Len(Known) =>
      emitted[i].table =
        IF \A table \in config.onlyIncludeTables : ~Dotted(table)
          THEN <<Known[i].table>>
          ELSE <<Known[i].schema, Known[i].table>>

\* C25: each raw record of kind insert, update or delete gives exactly one
\* event, tagged with the record's kind, with row and no identity for
\* insert and update and identity and no row for delete; a record of
\* another kind gives no event and the records after it are still decoded.
C25_OneEventPerKnownRecord ==
  /\ Len(emitted) = Len(Known)
  /\ \A i \in 1..Len(emitted) :
       /\ i <= Len(Known) => emitted[i].event = Known[i].kind
       /\ DOMAIN emitted[i] =
            IF emitted[i].event = "delete"
              THEN {"table", "event", "identity"}
              ELSE {"table", "event", "row"}

\* A record of another kind was skipped and the delete after it decoded.
C25_Witness ==
  /\ Len(raw) = 2
  /\ raw[1].kind = "truncate" /\ raw[2].kind = "delete"
  /\ Len(emitted) = 1
  /\ emitted[1].event = "delete" /\ "identity" \in DOMAIN emitted[1]

\* The get-changes requests queued or running on the client of stream s.
GetsInFlight(s) ==
  Cardinality({i \in 1..Len(clientQueue[s]) : clientQueue[s][i] = "get"})

\* C23: for one stream at most one get-changes request is in flight at any
\* time; a tick that fires while a poll is in progress issues no request
\* and leaves the guard as it is.
C23_OneGetInFlight ==
  /\ [](\A s \in Streams : GetsInFlight(s) <= 1)
  /\ [][\A s \in Streams :
          pollpc[s] # "idle" =>
            /\ GetsInFlight(s)' <= GetsInFlight(s)
            /\ currentlyGettingChanges' # currentlyGettingChanges
                 => pollpc'[s] = "idle"]_vars

\* A tick was skipped during the poll whose request is still in flight.
C23_Witness ==
  /\ skippedOwn["A"]
  /\ pollpc["A"] = "getting"
  /\ GetsInFlight("A") = 1
  /\ currentlyGettingChanges
  /\ lastPoll["A"].kind = "none"

\* C28: the overlap guard is set only while a poll is in progress: when a
\* poll invocation that took it finishes, however it ends, the guard is
\* clear, so a later tick gets to issue a request.
C28_GuardOnlyDuringPoll ==
  /\ [](currentlyGettingChanges => \E s \in Streams : pollpc[s] # "idle")
  /\ [][\A s \in Streams :
          pollpc[s] # "idle" /\ pollpc'[s] = "idle"
            => ~currentlyGettingChanges']_vars

\* After a poll whose slot re-creation failed, a later tick has sent a
\* request.
C28_Witness ==
  /\ lastPoll["A"].kind = "recreateFailed"
  /\ lastPoll["A"].raised
  /\ pollpc["A"] = "getting"
  /\ HeadIs("A", "get")

\* C29: if slot creation fails inside getKyselyChanges, the call rejects
\* with nothing left behind: the session taken from the pool has been
\* released and no poll timer has been started.
C29_FailedStartReleasesSession ==
  \A s \in Streams :
    startpc[s] = "rejected" => session[s] = "released" /\ ~interval[s]

\* C26: the lastResult a handler is invoked with is the value of the most
\* recent query run that resolved before the invocation, undefined if none
\* has; and lastResult holds a run's value when that value is delivered
\* through next.
C26_HandlerSeesLastResult ==
  [][/\ (/\ Len(changes') = Len(changes) + 1
         /\ changes'[Len(changes')].seen # "none")
        => /\ nResolved = Len(nexts)
           /\ changes'[Len(changes')].seen =
                IF nexts = <<>> THEN "undefined" ELSE nexts[Len(nexts)]
     /\ Len(nexts') = Len(nexts) + 1
        => lastResult' = nexts'[Len(nexts')]]_vars

\* A handler was invoked with the second of two different results.
C26_Witness ==
  /\ Len(nexts) = 2
  /\ nexts[1] # nexts[2]
  /\ changes # <<>>
  /\ changes[Len(changes)].seen = nexts[2]
  /\ lastResult = nexts[2]

\* C27: when the upstream subject completes or errors, an active subscriber
\* of the runner gets that same terminal notification, once, and no next
\* after it, whether a query is in flight or a follow-up run is queued.
C27_UpstreamTerminalPropagates ==
  [][/\ (upstream = "open" /\ upstream' # "open" /\ sub = "active")
        => sub' = upstream'
     /\ sub \in {"completed", "errored"}
        => sub' = sub /\ nexts' = nexts]_vars

\* The subject completed with a run in flight and a follow-up queued; both
\* runs resolved afterwards and nothing was delivered.
C27_Witness ==
  /\ upstream = "completed"
  /\ sub = "completed"
  /\ started = 2
  /\ nResolved = 2
  /\ inFlight = 0
  /\ nexts = <<>>

====
